---------------------------- MODULE Spec2Model ----------------------------
(***************************************************************************)
(* The CreateTransfers path of the gRPC service: environment-driven        *)
(* construction (NewApp), request validation and translation, the          *)
(* request-coalescing buffer (timedbuf.TimedBuf) with its flush function,  *)
(* the per-call response channel, and the unbuffered passthrough.          *)
(*                                                                         *)
(* Strings that the program parses are tuples of one-character strings,    *)
(* so that parsing is computed and can fail.  Durations are milliseconds.  *)
(***************************************************************************)
EXTENDS Integers, Sequences, FiniteSets, TLC

\* Number of CreateTransfers calls (each call is one goroutine of the gRPC server).
NumCalls == 3

\* bufSize default, NewApp.
DefaultBufSize == 1024
\* bufDelay default in milliseconds, NewApp.
DefaultBufDelay == 100

Calls == 1..NumCalls

VARIABLES
    env,      \* process environment read by NewApp
    app,      \* the constructed App: mode, and the coalescer's capacity and delay
    batch,    \* TimedBuf: the live batch, a sequence of TimedPayload
    gen,      \* TimedBuf: identity of the live batch
    timers,   \* TimedBuf: batches whose deadline timer is armed and has not fired
    flushes,  \* activations of the flush function, one per retired batch
    chan,     \* per call: the response channel c made by CreateTransfers
    pc,       \* per call: position of the CreateTransfers handler
    req,      \* per call: the wire request it was invoked with
    transfers, \* per call: the handler's translated transfers
    out,      \* per call: the (reply, error) pair it returned
    tbCalls,  \* log of TB.CreateTransfers invocations: who invoked, input, outcome
    putSeq    \* the calls that reached TimedBuf.Put, in the order they did

vars == <<env, app, batch, gen, timers, flushes, chan, pc, req, transfers, out, tbCalls, putSeq>>

-----------------------------------------------------------------------------
(* Sequence helpers *)

RECURSIVE Flatten(_)
Flatten(ss) == IF ss = <<>> THEN <<>> ELSE Head(ss) \o Flatten(Tail(ss))

-----------------------------------------------------------------------------
(* Parsing of environment values and identifiers *)

DecDigits == ("0" :> 0) @@ ("1" :> 1) @@ ("2" :> 2) @@ ("3" :> 3) @@ ("4" :> 4)
             @@ ("5" :> 5) @@ ("6" :> 6) @@ ("7" :> 7) @@ ("8" :> 8) @@ ("9" :> 9)

HexDigits == DecDigits @@ ("a" :> 10) @@ ("b" :> 11) @@ ("c" :> 12)
             @@ ("d" :> 13) @@ ("e" :> 14) @@ ("f" :> 15)

RECURSIVE DigitsValue(_, _, _)
DigitsValue(s, digits, base) ==
    IF s = <<>> THEN 0
    ELSE DigitsValue(SubSeq(s, 1, Len(s) - 1), digits, base) * base + digits[s[Len(s)]]

AllIn(s, digits) == \A i \in DOMAIN s : s[i] \in DOMAIN digits

\* strconv.Atoi: an optional sign and at least one decimal digit; (0, error) otherwise.
Atoi(s) ==
    LET signed == s # <<>> /\ s[1] \in {"-", "+"}
        body   == IF signed THEN Tail(s) ELSE s
    IN  IF body = <<>> \/ ~AllIn(body, DecDigits)
        THEN [val |-> 0, ok |-> FALSE]
        ELSE [val |-> IF signed /\ s[1] = "-"
                      THEN 0 - DigitsValue(body, DecDigits, 10)
                      ELSE DigitsValue(body, DecDigits, 10),
              ok  |-> TRUE]

DurationUnits == (<<"m", "s">> :> 1) @@ (<<"s">> :> 1000) @@ (<<"h">> :> 3600000)

\* time.ParseDuration for a single integer component: [sign] digits unit, or "0".
\* The value is in milliseconds.
ParseDuration(s) ==
    LET signed == s # <<>> /\ s[1] \in {"-", "+"}
        neg    == signed /\ s[1] = "-"
        body   == IF signed THEN Tail(s) ELSE s
        nd     == Cardinality({i \in DOMAIN body :
                      \A j \in 1..i : body[j] \in DOMAIN DecDigits})
        num    == SubSeq(body, 1, nd)
        unit   == SubSeq(body, nd + 1, Len(body))
    IN  IF body = <<"0">> THEN [val |-> 0, ok |-> TRUE]
        ELSE IF nd = 0 \/ unit \notin DOMAIN DurationUnits
        THEN [val |-> 0, ok |-> FALSE]
        ELSE [val |-> (IF neg THEN -1 ELSE 1)
                        * DigitsValue(num, DecDigits, 10) * DurationUnits[unit],
              ok  |-> TRUE]

\* shared.HexStringToUint128 / types.HexStringToUint128: at most 32 hex digits.
HexStringToUint128(s) ==
    IF Len(s) > 32 \/ ~AllIn(s, HexDigits)
    THEN [val |-> 0, ok |-> FALSE]
    ELSE [val |-> DigitsValue(s, HexDigits, 16), ok |-> TRUE]

-----------------------------------------------------------------------------
(* Construction *)

\* The environments the service is started with: IS_BUFFERED, BUFFER_SIZE, BUFFER_DELAY.
Environments ==
    { [IS_BUFFERED |-> <<>>,                 BUFFER_SIZE |-> <<"2">>,      BUFFER_DELAY |-> <<"5","0","m","s">>],
      [IS_BUFFERED |-> <<"t","r","u","e">>,  BUFFER_SIZE |-> <<"1">>,      BUFFER_DELAY |-> <<"5","0","m","s">>],
      [IS_BUFFERED |-> <<"t","r","u","e">>,  BUFFER_SIZE |-> <<"2">>,      BUFFER_DELAY |-> <<"1","h">>],
      [IS_BUFFERED |-> <<"t","r","u","e">>,  BUFFER_SIZE |-> <<"3">>,      BUFFER_DELAY |-> <<"1","h">>],
      [IS_BUFFERED |-> <<"t","r","u","e">>,  BUFFER_SIZE |-> <<>>,         BUFFER_DELAY |-> <<>>],
      [IS_BUFFERED |-> <<"t","r","u","e">>,  BUFFER_SIZE |-> <<"0">>,      BUFFER_DELAY |-> <<"-","5","s">>],
      [IS_BUFFERED |-> <<"t","r","u","e">>,  BUFFER_SIZE |-> <<"-","1">>,  BUFFER_DELAY |-> <<"5","0","m","s">>],
      [IS_BUFFERED |-> <<"t","r","u","e">>,  BUFFER_SIZE |-> <<"2">>,      BUFFER_DELAY |-> <<"0">>],
      [IS_BUFFERED |-> <<"t","r","u","e">>,  BUFFER_SIZE |-> <<"x">>,      BUFFER_DELAY |-> <<"0">>] }

\* Variant: the default test is inverted, so a given size is replaced by the default.
BufSizeInvertedDefault(e) ==
    LET n == Atoi(e.BUFFER_SIZE).val
    IN  IF n # 0 THEN DefaultBufSize ELSE n

\* NewApp: bufSize, _ := strconv.Atoi(...); if bufSize == 0 { bufSize = 1024 }
BufSize(e) ==
    LET n == Atoi(e.BUFFER_SIZE).val
    IN  IF n = 0 THEN DefaultBufSize ELSE n

\* NewApp: bufDelay, err := time.ParseDuration(...); if err != nil { bufDelay = 100ms }
BufDelay(e) ==
    LET d == ParseDuration(e.BUFFER_DELAY)
    IN  IF ~d.ok THEN DefaultBufDelay ELSE d.val

\* Variant: the constructor accepts any capacity and delay.
TimedBufNewUnchecked(size, delay) ==
    [mode |-> "buffered", size |-> size, delay |-> delay]

\* timedbuf.New(size, delay, flushFn): a non-positive capacity or delay is a
\* configuration error raised by the constructor; otherwise the coalescer runs.
TimedBufNew(size, delay) ==
    IF size <= 0 \/ delay <= 0
    THEN [mode |-> "config_error", size |-> size, delay |-> delay]
    ELSE [mode |-> "buffered", size |-> size, delay |-> delay]

\* NewApp: TimedBuf stays nil (passthrough) unless IS_BUFFERED is exactly "true".
NewApp(e) ==
    IF e.IS_BUFFERED = <<"t", "r", "u", "e">>
    THEN TimedBufNew(BufSize(e), BufDelay(e))
    ELSE [mode |-> "passthrough", size |-> 0, delay |-> 0]

-----------------------------------------------------------------------------
(* Requests *)

IdChars == <<"1", "2", "3", "4", "5", "6", "7", "8", "9", "a", "b", "c", "d", "e", "f">>

\* An optional (pointer) field is <<>> when nil and <<v>> when set.
Nil == <<>>

NoFlags == [Linked |-> Nil, Pending |-> Nil, PostPendingTransfer |-> Nil,
            VoidPendingTransfer |-> Nil, BalancingDebit |-> Nil,
            BalancingCredit |-> Nil]

\* proto.Transfer number k of call c; transfer identifiers are unique per call.
WireTransfer(c, k) ==
    [Id              |-> <<IdChars[c], IdChars[k]>>,
     DebitAccountId  |-> <<"a", "1">>,
     CreditAccountId |-> <<"a", "2">>,
     PendingId       |-> Nil,
     UserData128     |-> <<>>,
     Amount          |-> 10 * k,
     UserData64      |-> 0,
     UserData32      |-> 0,
     Ledger          |-> 65536 + 7,
     TransferFlags   |-> [NoFlags EXCEPT !.Linked = <<k = 2>>]]

AcceptedKinds == <<"one", "sameAccounts">>
RejectedKinds == <<"empty", "badCredit", "badPending">>

\* The requests call c may be invoked with: one that passes validation and one
\* that does not, rotating through the kinds.
RequestKinds(c) ==
    { AcceptedKinds[((c - 1) % Len(AcceptedKinds)) + 1],
      RejectedKinds[((c - 1) % Len(RejectedKinds)) + 1] }

\* proto.CreateTransfersRequest.Transfers of call c, by kind.
Request(c, kind) ==
    CASE kind = "empty"        -> <<>>
      [] kind = "one"          -> <<WireTransfer(c, 1)>>
      [] kind = "sameAccounts" ->
            <<WireTransfer(c, 1),
              [WireTransfer(c, 2) EXCEPT !.CreditAccountId = <<"a", "1">>]>>
      [] kind = "badCredit"    ->
            <<WireTransfer(c, 1),
              [WireTransfer(c, 2) EXCEPT !.CreditAccountId = <<"g">>]>>
      [] kind = "badPending"   ->
            <<[WireTransfer(c, 1) EXCEPT !.PendingId = <<(<<"0", "x", "1">>)>>]>>

\* lo.FromPtrOr(p, fallback)
FromPtrOr(p, fallback) == IF p = Nil THEN fallback ELSE p[1]

\* types.TransferFlags.ToUint16
TransferFlagsToUint16(f) ==
      (IF f.Linked THEN 1 ELSE 0)
    + (IF f.Pending THEN 2 ELSE 0)
    + (IF f.PostPendingTransfer THEN 4 ELSE 0)
    + (IF f.VoidPendingTransfer THEN 8 ELSE 0)
    + (IF f.BalancingDebit THEN 16 ELSE 0)
    + (IF f.BalancingCredit THEN 32 ELSE 0)

\* The identifiers of one wire transfer, in the order CreateTransfers parses them.
TransferIdentifiers(t) ==
    <<t.Id, t.DebitAccountId, t.CreditAccountId, FromPtrOr(t.PendingId, <<>>), t.UserData128>>

\* One iteration of the translation loop of CreateTransfers: the types.Transfer
\* built from a wire transfer, or the parse error of its first bad identifier.
ToTransfer(t) ==
    LET ids   == TransferIdentifiers(t)
        bad   == {i \in DOMAIN ids : ~HexStringToUint128(ids[i]).ok}
        flags == [n \in DOMAIN t.TransferFlags |-> FromPtrOr(t.TransferFlags[n], FALSE)]
    IN  IF bad # {}
        THEN [err |-> "ErrHexParse", transfer |-> "nil"]
        ELSE [err |-> "nil",
              transfer |->
                [ID              |-> HexStringToUint128(t.Id).val,
                 DebitAccountID  |-> HexStringToUint128(t.DebitAccountId).val,
                 CreditAccountID |-> HexStringToUint128(t.CreditAccountId).val,
                 Amount          |-> t.Amount,
                 PendingID       |-> HexStringToUint128(FromPtrOr(t.PendingId, <<>>)).val,
                 UserData128     |-> HexStringToUint128(t.UserData128).val,
                 UserData64      |-> t.UserData64,
                 UserData32      |-> t.UserData32,
                 Timeout         |-> 0,
                 Ledger          |-> t.Ledger,
                 Code            |-> t.Ledger % 65536,
                 Flags           |-> TransferFlagsToUint16(flags),
                 Timestamp       |-> 0]]

\* Variant: the empty-request check is missing.
ValidateTransfersAcceptsEmpty(r) ==
    LET conv == [i \in DOMAIN r |-> ToTransfer(r[i])]
    IN  IF \E i \in DOMAIN r : conv[i].err # "nil"
        THEN [err |-> "ErrHexParse", transfers |-> <<>>]
        ELSE [err |-> "nil", transfers |-> [i \in DOMAIN r |-> conv[i].transfer]]

\* The validation and translation part of CreateTransfers: ErrZeroTransfers for
\* an empty request, the first parse error, or the translated transfers.
ValidateTransfers(r) ==
    LET conv == [i \in DOMAIN r |-> ToTransfer(r[i])]
    IN  IF Len(r) = 0
        THEN [err |-> "ErrZeroTransfers", transfers |-> <<>>]
        ELSE IF \E i \in DOMAIN r : conv[i].err # "nil"
        THEN [err |-> "ErrHexParse", transfers |-> <<>>]
        ELSE [err |-> "nil", transfers |-> [i \in DOMAIN r |-> conv[i].transfer]]

-----------------------------------------------------------------------------
(* The downstream ledger client *)

RECURSIVE EventResults(_, _)
EventResults(ts, i) ==
    IF i > Len(ts) THEN <<>>
    ELSE (IF ts[i].DebitAccountID = ts[i].CreditAccountID
          THEN <<[Index |-> i - 1, Result |-> "TransferAccountsMustBeDifferent"]>>
          ELSE <<>>) \o EventResults(ts, i + 1)

\* TB.CreateTransfers(transfers): an error for the whole call when the client
\* fails, otherwise one result per transfer the ledger rejected.
TBCreateTransfers(ts, fails) ==
    IF fails
    THEN [results |-> <<>>, err |-> "ErrTB"]
    ELSE [results |-> EventResults(ts, 1), err |-> "nil"]

\* Variant: the error check is missing, so a reply is built from the results.
ReplyOfIgnoresError(results, err) ==
    [reply |-> <<[Results |-> [i \in DOMAIN results |-> results[i].Result]]>>,
     err   |-> "nil"]

\* The tail of CreateTransfers: the error, or the result names as the reply.
ReplyOf(results, err) ==
    IF err # "nil"
    THEN [reply |-> Nil, err |-> err]
    ELSE [reply |-> <<[Results |-> [i \in DOMAIN results |-> results[i].Result]]>>,
          err   |-> "nil"]

-----------------------------------------------------------------------------
(* The coalescer: timedbuf.TimedBuf[TimedPayload] *)

NoResponse == [Results |-> <<>>, Error |-> "nil"]

\* The activation of the flush function for a retired batch.
NewFlush(id, payloads, trigger) ==
    [id |-> id, payloads |-> payloads, trigger |-> trigger,
     pc |-> "call", i |-> 1, res |-> NoResponse]

\* The batch has reached the configured capacity.
CapacityReached(b, size) == Len(b) >= size

\* TimedBuf.Put(item): append to the live batch; at capacity, retire the batch
\* and hand it to the flush function; otherwise the first item of a fresh
\* batch arms the batch's deadline timer.  Appending and retiring are one
\* atomic unit.
TimedBufPut(item, size) ==
    LET appended == Append(batch, item)
    IN  IF CapacityReached(appended, size)
        THEN [batch   |-> <<>>,
              gen     |-> gen + 1,
              timers  |-> timers,
              retired |-> <<NewFlush(gen, appended, "capacity")>>]
        ELSE [batch   |-> appended,
              gen     |-> gen,
              timers  |-> IF batch = <<>> THEN timers \cup {gen} ELSE timers,
              retired |-> <<>>]

\* Variant: a firing timer retires whatever batch is live, whichever it was armed for.
BatchLiveAnyBatch(g) == batch # <<>>

\* The batch a deadline timer was armed for is still live.
BatchLive(g) == g = gen /\ batch # <<>>

\* The deadline timer of batch g fires: it retires the batch if it is still
\* live and does nothing if the batch has already been retired.
TimedBufDeadline(g) ==
    IF BatchLive(g)
    THEN [batch   |-> <<>>,
          gen     |-> gen + 1,
          retired |-> <<NewFlush(gen, batch, "deadline")>>]
    ELSE [batch |-> batch, gen |-> gen, retired |-> <<>>]

-----------------------------------------------------------------------------
(* The flush function passed to timedbuf.New *)

\* Variant: the last payload of a batch of several is left out of the concatenation.
FlushTransfersDropsLast(payloads) ==
    Flatten([i \in 1..(IF Len(payloads) > 1 THEN Len(payloads) - 1 ELSE Len(payloads))
                |-> payloads[i].payload])

\* Variant: each payload is prepended, so the batch is concatenated in reverse.
FlushTransfersReversed(payloads) ==
    Flatten([i \in DOMAIN payloads |-> payloads[Len(payloads) + 1 - i].payload])

\* transfers = append(transfers, p.payload...) for each p of payloads
FlushTransfers(payloads) == Flatten([i \in DOMAIN payloads |-> payloads[i].payload])

\* Variant: the response carries the results but not the error.
FlushResponseWithoutError(results, err) == [Results |-> results, Error |-> "nil"]

\* res := TimedPayloadResponse{Results: results, Error: err}
FlushResponse(results, err) == [Results |-> results, Error |-> err]

\* Variant: only the first payload's channel is sent to.
FlushTargetsFirstOnly(payloads) == <<payloads[1].c>>

\* Variant: every payload's channel is sent to twice.
FlushTargetsTwice(payloads) ==
    [i \in 1..(2 * Len(payloads)) |-> payloads[(i + 1) \div 2].c]

\* for _, p := range payloads { p.c <- res }: the channels sent to, in order
FlushTargets(payloads) == [i \in DOMAIN payloads |-> payloads[i].c]

-----------------------------------------------------------------------------
(* State *)

NoChan == [made |-> FALSE, sendq |-> <<>>, sent |-> 0, recvd |-> 0]

NoOut == [reply |-> Nil, err |-> "nil"]

Init ==
    /\ env \in Environments
    /\ app = NewApp(env)
    /\ batch = <<>>
    /\ gen = 1
    /\ timers = {}
    /\ flushes = <<>>
    /\ chan = [c \in Calls |-> NoChan]
    /\ pc = [c \in Calls |-> "idle"]
    /\ req = [c \in Calls |-> <<>>]
    /\ transfers = [c \in Calls |-> <<>>]
    /\ out = [c \in Calls |-> NoOut]
    /\ tbCalls = {}
    /\ putSeq = <<>>

\* The log entry of one TB.CreateTransfers invocation; n numbers the
\* invocations of the same invoker.
Invocation(by, ts, r) ==
    [by |-> by, n |-> Cardinality({x \in tbCalls : x.by = by}) + 1,
     transfers |-> ts, results |-> r.results, err |-> r.err]

\* The server serves requests only if NewApp returned.
Serving == app.mode \in {"buffered", "passthrough"}

-----------------------------------------------------------------------------
(* CreateTransfers *)

\* The request fails validation: the handler returns the error at once.
CreateTransfersRejected(c, kind) ==
    LET v == ValidateTransfers(Request(c, kind))
    IN  /\ Serving
        /\ pc[c] = "idle"
        /\ v.err # "nil"
        /\ req' = [req EXCEPT ![c] = Request(c, kind)]
        /\ out' = [out EXCEPT ![c] = [reply |-> Nil, err |-> v.err]]
        /\ pc' = [pc EXCEPT ![c] = "done"]
        /\ UNCHANGED <<env, app, batch, gen, timers, flushes, chan, transfers, tbCalls, putSeq>>

\* s.TimedBuf != nil: make the channel, Put the payload, then wait on the channel.
CreateTransfersPut(c, kind) ==
    LET v == ValidateTransfers(Request(c, kind))
        t == TimedBufPut([c |-> c, payload |-> v.transfers], app.size)
    IN  /\ app.mode = "buffered"
        /\ pc[c] = "idle"
        /\ v.err = "nil"
        /\ req' = [req EXCEPT ![c] = Request(c, kind)]
        /\ transfers' = [transfers EXCEPT ![c] = v.transfers]
        /\ chan' = [chan EXCEPT ![c].made = TRUE]
        /\ batch' = t.batch
        /\ gen' = t.gen
        /\ timers' = t.timers
        /\ flushes' = flushes \o t.retired
        /\ putSeq' = Append(putSeq, c)
        /\ pc' = [pc EXCEPT ![c] = "wait"]
        /\ UNCHANGED <<env, app, out, tbCalls>>

\* resp := <-c, then the tail of the handler.
CreateTransfersRecv(c) ==
    /\ pc[c] = "wait"
    /\ chan[c].sendq # <<>>
    /\ LET h == Head(chan[c].sendq)
           f == flushes[h.from]
           n == Len(FlushTargets(f.payloads))
       IN  /\ chan' = [chan EXCEPT ![c].sendq = Tail(@), ![c].recvd = @ + 1]
           /\ flushes' = [flushes EXCEPT ![h.from].i = @ + 1,
                                         ![h.from].pc = IF f.i + 1 > n THEN "done" ELSE "send"]
           /\ out' = [out EXCEPT ![c] = ReplyOf(h.val.Results, h.val.Error)]
           /\ pc' = [pc EXCEPT ![c] = "done"]
    /\ UNCHANGED <<env, app, batch, gen, timers, req, transfers, tbCalls, putSeq>>

\* s.TimedBuf == nil: call the ledger client directly.
CreateTransfersPassthrough(c, kind, fails) ==
    LET v == ValidateTransfers(Request(c, kind))
        r == TBCreateTransfers(v.transfers, fails)
    IN  /\ app.mode = "passthrough"
        /\ pc[c] = "idle"
        /\ v.err = "nil"
        /\ req' = [req EXCEPT ![c] = Request(c, kind)]
        /\ transfers' = [transfers EXCEPT ![c] = v.transfers]
        /\ tbCalls' = tbCalls \cup {Invocation(<<"direct", c>>, v.transfers, r)}
        /\ out' = [out EXCEPT ![c] = ReplyOf(r.results, r.err)]
        /\ pc' = [pc EXCEPT ![c] = "done"]
        /\ UNCHANGED <<env, app, batch, gen, timers, flushes, chan, putSeq>>

-----------------------------------------------------------------------------
(* The deadline timer and the flush function *)

DeadlineFires(g) ==
    LET t == TimedBufDeadline(g)
    IN  /\ g \in timers
        /\ timers' = timers \ {g}
        /\ batch' = t.batch
        /\ gen' = t.gen
        /\ flushes' = flushes \o t.retired
        /\ UNCHANGED <<env, app, chan, pc, req, transfers, out, tbCalls, putSeq>>

\* Concatenate the payloads, call the ledger client once, build the response.
FlushCall(k, fails) ==
    LET f         == flushes[k]
        all       == FlushTransfers(f.payloads)
        r         == TBCreateTransfers(all, fails)
    IN  /\ f.pc = "call"
        /\ tbCalls' = tbCalls \cup {Invocation(<<"flush", f.id>>, all, r)}
        /\ flushes' = [flushes EXCEPT
                         ![k].res = FlushResponse(r.results, r.err),
                         ![k].pc  = IF FlushTargets(f.payloads) = <<>> THEN "done" ELSE "send"]
        /\ UNCHANGED <<env, app, batch, gen, timers, chan, pc, req, transfers, out, putSeq>>

\* p.c <- res on the unbuffered channel: the sender blocks until it is received.
FlushSend(k) ==
    LET f == flushes[k]
        c == FlushTargets(f.payloads)[f.i]
    IN  /\ f.pc = "send"
        /\ chan' = [chan EXCEPT ![c].sendq = Append(@, [from |-> k, val |-> f.res]),
                                ![c].sent  = @ + 1]
        /\ flushes' = [flushes EXCEPT ![k].pc = "blocked"]
        /\ UNCHANGED <<env, app, batch, gen, timers, pc, req, transfers, out, tbCalls, putSeq>>

Next ==
    \/ \E c \in Calls : \E kind \in RequestKinds(c) : CreateTransfersRejected(c, kind)
    \/ \E c \in Calls : \E kind \in RequestKinds(c) : CreateTransfersPut(c, kind)
    \/ \E c \in Calls : CreateTransfersRecv(c)
    \/ \E c \in Calls : \E kind \in RequestKinds(c), fails \in BOOLEAN :
           CreateTransfersPassthrough(c, kind, fails)
    \/ \E g \in timers : DeadlineFires(g)
    \/ \E k \in DOMAIN flushes, fails \in BOOLEAN : FlushCall(k, fails)
    \/ \E k \in DOMAIN flushes : FlushSend(k)

Spec == Init /\ [][Next]_vars

\* The scheduler runs every goroutine that can take a step, the armed timers
\* fire, and the ledger client returns.
Fairness ==
    /\ \A c \in Calls : WF_vars(CreateTransfersRecv(c))
    /\ WF_vars(\E g \in timers : DeadlineFires(g))
    /\ WF_vars(\E k \in DOMAIN flushes, fails \in BOOLEAN : FlushCall(k, fails))
    /\ WF_vars(\E k \in DOMAIN flushes : FlushSend(k))

\* The service started unbuffered or with the default capacity, which the
\* calls of the model never reach: every flush is the deadline's.
DeadlineInit == Init /\ (env.IS_BUFFERED = <<>> \/ env.BUFFER_SIZE = <<>>)

DeadlineSpec == DeadlineInit /\ [][Next]_vars /\ Fairness

-----------------------------------------------------------------------------
(* Vocabulary of the properties *)

Buffered == app.mode = "buffered"

\* The calls whose payload is in the batch handed to flush activation f.
ItemsOf(f) == {f.payloads[i].c : i \in DOMAIN f.payloads}

\* The calls that enqueued an item.
Enqueued == {putSeq[i] : i \in DOMAIN putSeq}

\* The transfers call c submitted.
Payload(c) == transfers[c]

\* How many times the transfers of call c occur in invocation x (transfer
\* identifiers are unique per call).
Occurrences(c, x) ==
    Cardinality({i \in DOMAIN x.transfers : x.transfers[i].ID = Payload(c)[1].ID})

RECURSIVE SumOver(_, _)
SumOver(S, c) ==
    IF S = {} THEN 0
    ELSE LET x == CHOOSE y \in S : TRUE
         IN  Occurrences(c, x) + SumOver(S \ {x}, c)

FlushInvocations == {x \in tbCalls : x.by[1] = "flush"}

\* The flush activations that have made their downstream call.
Called == {k \in DOMAIN flushes : flushes[k].pc # "call"}

\* What a caller must observe for the downstream outcome recorded in x.
Observed(x) ==
    IF x.err # "nil"
    THEN [reply |-> Nil, err |-> x.err]
    ELSE [reply |-> <<[Results |-> [i \in DOMAIN x.results |-> x.results[i].Result]]>>,
          err   |-> "nil"]

\* The configured capacity: BUFFER_SIZE, or 1024 when it is unset, unparsable or 0.
ConfiguredCapacity ==
    IF Atoi(env.BUFFER_SIZE).val = 0 THEN 1024 ELSE Atoi(env.BUFFER_SIZE).val

-----------------------------------------------------------------------------
(* C1: exactly-once flush *)

\* C1: in buffered mode every enqueued item is in the live batch or in exactly
\* one retired batch; the transfers of an item occur in no two downstream
\* invocations and never twice in one; each retired batch is invoked at most
\* once, exactly once as soon as its flush has made its call, so the number of
\* invocations equals the number of batches flushed; and an item whose flush
\* has made its call, in particular one whose caller returned, occurs in
\* exactly one invocation.
ExactlyOnceFlush ==
    Buffered =>
        /\ \A c \in Enqueued :
              Cardinality({k \in DOMAIN flushes : c \in ItemsOf(flushes[k])})
                + (IF \E i \in DOMAIN batch : batch[i].c = c THEN 1 ELSE 0) = 1
        /\ \A c \in Enqueued : SumOver(tbCalls, c) <= 1
        /\ \A c \in Enqueued :
              (\E k \in Called : c \in ItemsOf(flushes[k])) => SumOver(tbCalls, c) = 1
        /\ \A c \in Enqueued : pc[c] = "done" => SumOver(tbCalls, c) = 1
        /\ \A k \in DOMAIN flushes :
              Cardinality({x \in tbCalls : x.by = <<"flush", flushes[k].id>>})
                = (IF k \in Called THEN 1 ELSE 0)
        /\ Cardinality(tbCalls) = Cardinality(Called)

\* Three calls were coalesced into two batches, both invoked downstream, and
\* every caller has returned.
ExactlyOnceFlushWitness ==
    /\ Buffered
    /\ Cardinality(Enqueued) = 3
    /\ Len(flushes) = 2
    /\ Cardinality(tbCalls) = 2
    /\ \A c \in Enqueued : pc[c] = "done"

-----------------------------------------------------------------------------
(* C2: order preservation *)

\* The calls of flush activation f in the order they reached Put.
SubmissionOrder(f) == SelectSeq(putSeq, LAMBDA c : c \in ItemsOf(f))

\* C2: the sequence passed downstream for a batch is the concatenation of the
\* payloads of its items in submission order, each payload contiguous and in
\* its own order.
OrderPreserved ==
    \A k \in DOMAIN flushes : \A x \in tbCalls :
        x.by = <<"flush", flushes[k].id>> =>
            LET order == SubmissionOrder(flushes[k])
            IN  x.transfers = Flatten([i \in DOMAIN order |-> Payload(order[i])])

\* A batch of three items, submitted in an order other than the order of the
\* call numbers, has been sent downstream.
OrderPreservedWitness ==
    \E k \in DOMAIN flushes :
        /\ k \in Called
        /\ Len(flushes[k].payloads) = 3
        /\ SubmissionOrder(flushes[k])[1] > SubmissionOrder(flushes[k])[2]

-----------------------------------------------------------------------------
(* C3: fan-out consistency and failure propagation *)

\* C3: every caller that returned from a batch observed exactly the outcome
\* of the batch's downstream invocation: the error and no reply when it
\* failed, the full result sequence when it succeeded; so callers of one batch
\* observe identical outcomes.
FanOutConsistent ==
    \A k \in DOMAIN flushes :
        /\ \A c \in ItemsOf(flushes[k]) : \A x \in tbCalls :
              (pc[c] = "done" /\ x.by = <<"flush", flushes[k].id>>) => out[c] = Observed(x)
        /\ \A c, d \in ItemsOf(flushes[k]) :
              (pc[c] = "done" /\ pc[d] = "done") => out[c] = out[d]

\* Two callers of one batch have both returned the downstream error.
FanOutConsistentWitness ==
    \E k \in DOMAIN flushes : \E c, d \in ItemsOf(flushes[k]) :
        /\ c # d
        /\ pc[c] = "done" /\ pc[d] = "done"
        /\ out[c].err = "ErrTB" /\ out[d].err = "ErrTB"

-----------------------------------------------------------------------------
(* C4: one trigger per batch *)

RetiredIds == {flushes[k].id : k \in DOMAIN flushes}

\* C4: a batch is retired by one trigger only: no batch has two flush
\* activations, no item is in two of them, every activation holds a non-empty
\* batch that is no longer live; and a deadline timer that fires for a batch
\* already retired changes neither the live batch nor the flush activations,
\* and causes no downstream invocation.
SingleTrigger ==
    /\ [](/\ \A i, j \in DOMAIN flushes :
                i # j => /\ flushes[i].id # flushes[j].id
                         /\ ItemsOf(flushes[i]) \cap ItemsOf(flushes[j]) = {}
          /\ \A k \in DOMAIN flushes :
                /\ flushes[k].payloads # <<>>
                /\ flushes[k].id < gen
                /\ flushes[k].trigger \in {"capacity", "deadline"}
                /\ Cardinality({x \in tbCalls : x.by = <<"flush", flushes[k].id>>}) <= 1)
    /\ [][\A g \in timers :
            (g \notin timers' /\ g \in RetiredIds)
                => UNCHANGED <<batch, gen, flushes, tbCalls, chan>>]_vars

\* The deadline timer of a batch that the capacity trigger retired has fired,
\* while a later batch was live.
SingleTriggerWitness ==
    \E k \in DOMAIN flushes :
        /\ flushes[k].trigger = "capacity"
        /\ Len(flushes[k].payloads) >= 2
        /\ flushes[k].id \notin timers
        /\ batch # <<>>

-----------------------------------------------------------------------------
(* C5: capacity trigger *)

\* C5: the live batch never holds the configured capacity: the append that
\* reaches it retires the batch at once; a batch retired by the capacity
\* trigger holds exactly capacity items in submission order, a batch retired
\* by the deadline fewer, and none more.
CapacityTrigger ==
    Buffered =>
        /\ Len(batch) < ConfiguredCapacity
        /\ \A k \in DOMAIN flushes :
              LET f == flushes[k]
              IN  /\ Len(f.payloads) <= ConfiguredCapacity
                  /\ (f.trigger = "capacity") <=> (Len(f.payloads) = ConfiguredCapacity)
                  /\ [i \in DOMAIN f.payloads |-> f.payloads[i].c] = SubmissionOrder(f)

\* Capacity 3: three submissions were flushed as one batch of 3 by one
\* downstream call while the batch's deadline timer has still not fired.
CapacityTriggerWitness ==
    /\ ConfiguredCapacity = 3
    /\ \E k \in Called :
          /\ flushes[k].trigger = "capacity"
          /\ Len(flushes[k].payloads) = 3
          /\ flushes[k].id \in timers
    /\ Cardinality(tbCalls) = 1

-----------------------------------------------------------------------------
(* C6: deadline trigger *)

\* C6: given that timers fire, the downstream call returns and goroutines are
\* scheduled, a call does not wait on its channel forever although its batch
\* never reaches capacity: eventually, and from then on, every call that
\* enqueued an item has received its response and returned.
DeadlineTrigger == <>[](\A c \in Calls : pc[c] # "wait")

\* With the default capacity of 1024, a single submission was flushed by the
\* deadline and its caller has returned.
DeadlineTriggerWitness ==
    /\ Buffered
    /\ ConfiguredCapacity = 1024
    /\ \E k \in DOMAIN flushes :
          /\ flushes[k].trigger = "deadline"
          /\ Len(flushes[k].payloads) = 1
          /\ pc[flushes[k].payloads[1].c] = "done"

-----------------------------------------------------------------------------
(* C7: passthrough equivalence *)

\* C7: in passthrough mode nothing is batched, no timer is armed and no
\* channel is made; and in passthrough mode as with capacity 1, a call that
\* returned after validation has exactly one downstream invocation, whose input
\* is exactly the call's own transfers, and returned exactly its outcome.
PassthroughEquivalent ==
    /\ app.mode = "passthrough" =>
          /\ batch = <<>> /\ timers = {} /\ flushes = <<>> /\ putSeq = <<>>
          /\ \A c \in Calls : chan[c] = NoChan
          /\ \A x \in tbCalls : x.by[1] = "direct"
    /\ (app.mode = "passthrough" \/ (Buffered /\ app.size = 1)) =>
          \A c \in Calls :
              (pc[c] = "done" /\ out[c].err \notin {"ErrZeroTransfers", "ErrHexParse"}) =>
                  /\ Cardinality({x \in tbCalls : x.transfers = transfers[c]}) = 1
                  /\ SumOver(tbCalls, c) = 1
                  /\ \A x \in tbCalls : x.transfers = transfers[c] => out[c] = Observed(x)

\* A passthrough call has returned the ledger's per-transfer results.
PassthroughEquivalentWitness ==
    /\ app.mode = "passthrough"
    /\ \E c \in Calls :
          /\ pc[c] = "done"
          /\ out[c].reply # Nil
          /\ out[c].reply[1].Results # <<>>

-----------------------------------------------------------------------------
(* C8: configuration errors *)

-----------------------------------------------------------------------------
(* C9: wait slots *)

\* C9: a call's channel is sent to at most once, by the flush of the batch
\* holding the call's item, and received from at most once, by the call; a
\* waiting call has received nothing, and a buffered call that returned has
\* received exactly the one delivery.
WaitSlotOnce ==
    \A c \in Calls :
        /\ chan[c].sent <= 1
        /\ chan[c].recvd + Len(chan[c].sendq) = chan[c].sent
        /\ \A i \in DOMAIN chan[c].sendq :
              /\ chan[c].sendq[i].from \in DOMAIN flushes
              /\ c \in ItemsOf(flushes[chan[c].sendq[i].from])
        /\ chan[c].sent > 0 => chan[c].made
        /\ pc[c] = "wait" => (chan[c].made /\ chan[c].recvd = 0)
        /\ (pc[c] = "done" /\ chan[c].made) => (chan[c].recvd = 1 /\ chan[c].sent = 1)

\* Both callers of a two-item batch have consumed their delivery.
WaitSlotOnceWitness ==
    \E k \in DOMAIN flushes :
        /\ Len(flushes[k].payloads) = 2
        /\ flushes[k].pc = "done"
        /\ \A c \in ItemsOf(flushes[k]) : chan[c].recvd = 1 /\ pc[c] = "done"

-----------------------------------------------------------------------------
(* C10: producer-layer rejection *)

\* The request has no transfers.
ZeroTransfers(r) == Len(r) = 0

\* Some identifier of the request is not a hexadecimal string.
BadIdentifier(r) ==
    \E i \in DOMAIN r : \E j \in DOMAIN TransferIdentifiers(r[i]) :
        ~HexStringToUint128(TransferIdentifiers(r[i])[j]).ok

\* C10: a call invoked with a request that has no transfers or has an
\* unparsable identifier returns in that same step with no reply and the
\* error (ErrZeroTransfers for the empty request), and the step leaves the
\* live batch, the timers, the flush activations, the channels and the
\* downstream log unchanged.
RejectedWithoutEnqueue ==
    [][\A c \in Calls :
          (pc[c] = "idle" /\ pc'[c] # "idle"
              /\ (ZeroTransfers(req'[c]) \/ BadIdentifier(req'[c])))
          => /\ pc'[c] = "done"
             /\ out'[c].reply = Nil
             /\ out'[c].err = (IF ZeroTransfers(req'[c])
                               THEN "ErrZeroTransfers" ELSE "ErrHexParse")
             /\ UNCHANGED <<batch, gen, timers, flushes, chan, tbCalls, putSeq>>]_vars

\* A request with an unparsable identifier was rejected while another call's
\* item was pending in the live batch.
RejectedWithoutEnqueueWitness ==
    /\ batch # <<>>
    /\ \E c \in Calls :
          /\ pc[c] = "done"
          /\ out[c].err = "ErrHexParse"
          /\ ~chan[c].made

=============================================================================
